---- MODULE Spec2Model ----
(***************************************************************************)
(* xfsvol: XFS project-quota controller (xfs.Control), the volume manager  *)
(* built on it and the docker volume-plugin driver that calls the manager. *)
(*                                                                         *)
(* Spec       one caller at a time drives the controller and the manager.  *)
(* SpecDriver concurrent plugin requests go through Driver's methods, one  *)
(*            step per statement that touches shared state.                *)
(* SpecDriverFair  SpecDriver with every request's steps weakly fair.      *)
(* SpecInit   NewControl alone, over every root and configured floor.      *)
(*                                                                         *)
(* uint32 project ids are modelled with a word of IdBits bits: arithmetic  *)
(* wraps at 2^IdBits exactly as the code's wraps at 2^32.                  *)
(***************************************************************************)
EXTENDS Integers, Sequences, FiniteSets, TLC

\* ---------------------------------------------------------------- bounds
IdBits ==
  3
MaxVols ==
  2
MaxReqs ==
  2

Modulus == 2 ^ IdBits
MaxProjectId == Modulus - 1
Uint32 == 0 .. MaxProjectId

\* ------------------------------------------------------------- constants
\* control.go:19
blockDeviceName == "__control-device"

\* part_000: args.HostMountpoint, the root the plugin hands to the manager
HostMountpoint == "/mnt/xfs/volumes"

\* Volume names, in the order ioutil.ReadDir (sorted by file name) lists them.
NamePool == <<"a", "b", "c", "d">>
VolNameSeq == SubSeq(NamePool, 1, MaxVols)
VolNames == {VolNameSeq[i] : i \in 1 .. MaxVols}
\* '_' sorts before the lower-case letters.
SortedNames == <<blockDeviceName>> \o VolNameSeq
AllNames == VolNames \cup {blockDeviceName}

\* xfs.Quota{Size, INode}. The controller passes the limits on without looking at
\* them, so two quotas that differ in both fields tell every case apart.
Quotas ==
  {[Size |-> 10 * 1024 * 1024, INode |-> 0], [Size |-> 512 * 1024 * 1024, INode |-> 1000]}
ZeroQuota == [Size |-> 0, INode |-> 0]

\* filepath.Join(root, name): the path is root, a separator, name.
Join(root, name) == <<root, "/", name>>
Base(path) == path[3]
Dir(path) == path[1]
NoPath == <<"", "/", "">>
Paths == {Join(HostMountpoint, n) : n \in VolNames}

\* The project ids found on directories before the controller starts, and the
\* configured floors tried: the low ids and the ones next to the word's end.
EdgeIds == {0, 1, MaxProjectId - 1, MaxProjectId}

VARIABLES
  entries,            \* file system: name under root -> "none" | "dir" | "file"
  diskId,             \* file system: on-disk project id of each directory
  devQuota,           \* kernel: project id -> hard limits (Quota)
  cfg,                \* ControlConfig {BasePath, StartingProjectId}
  phase,              \* "boot" before NewControl, then "live" or "failed"
  backingFsBlockDev,  \* Control.backingFsBlockDev
  projectIdCache,     \* Control.projectIdCache: path -> project id
  lastProjectId,      \* Control.lastProjectId
  issued,             \* history: the (path, id) pairs bound by SetQuota, in order,
                      \* each with the lastProjectId it was computed from
  ret,                \* the call that has just returned: what was called, what it
                      \* returned and the system calls it made ("none": no call)
  mutex,              \* the sync.Mutex of the Driver value the plugin handler holds
  reqs,               \* plugin requests: each one's method call on Driver
  mapWriter           \* the request that is inside an assignment to projectIdCache

vars == <<entries, diskId, devQuota, cfg, phase, backingFsBlockDev,
          projectIdCache, lastProjectId, issued, ret, mutex, reqs, mapWriter>>

fsVars == <<entries, diskId, devQuota>>
ctlVars == <<backingFsBlockDev, projectIdCache, lastProjectId>>
drvVars == <<mutex, reqs, mapWriter>>

\* ---------------------------------------------------------------- helpers
EmptyMap == [p \in {} |-> 0]
Put(m, k, v) == [x \in (DOMAIN m) \cup {k} |-> IF x = k THEN v ELSE m[x]]

NoCalls == <<>>
Syscall(fn, path, id, quota, ok) ==
  [fn |-> fn, path |-> path, id |-> id, quota |-> quota, ok |-> ok]

Ret(op, arg, quota, err, hit, id, out, found, names, calls) ==
  [op |-> op, arg |-> arg, quota |-> quota, err |-> err, hit |-> hit, id |-> id,
   out |-> out, found |-> found, names |-> names, calls |-> calls]

\* Plugin requests served at the same time, and a request that has not arrived.
\* acquired and released count the request's calls of d.Lock() and d.Unlock().
Reqs == 1 .. MaxReqs
NoRequest ==
  [pc |-> "idle", op |-> "none", name |-> "", quota |-> ZeroQuota, lock |-> "unlocked",
   projectId |-> 0, err |-> "", acquired |-> 0, released |-> 0]

Idle == Ret("none", NoPath, ZeroQuota, "", FALSE, 0, ZeroQuota, FALSE, {}, NoCalls)

\* The controller is constructed and its caller is between two calls.
Ready == phase = "live" /\ ret = Idle

Issue(targetPath, projectId, last) == [path |-> targetPath, id |-> projectId, last |-> last]

\* The directories under root.
Dirs == {n \in VolNames : entries[n] = "dir"}

IsDir(ents, name) == name \in DOMAIN ents /\ ents[name] = "dir"

\* ------------------------------------------------------ the file system
\* ioutil.ReadDir(root): the entries that exist, sorted by name.
ReadDir(ents) == SelectSeq(SortedNames, LAMBDA n : ents[n] # "none")

\* GetProjectId(absPath): the project id stored on the directory's inode.
GetProjectId(ids, absPath) == ids[Base(absPath)]

\* SetProjectId(targetPath, projectId) opens targetPath as a directory and sets
\* the id on it: it fails on a path that is no directory, and may fail for
\* want of privilege (privileged).
SetProjectIdOk(ents, targetPath, privileged) ==
  /\ Dir(targetPath) = cfg.BasePath
  /\ IsDir(ents, Base(targetPath))
  /\ Base(targetPath) \in VolNames
  /\ privileged

\* ------------------------------------- xfs.Control (xfs/control.go)
\* control.go:144  projectId = c.lastProjectId + 1, in uint32
NewProjectId(last) == (last + 1) % Modulus

\* control.go:204  if projectId > 0
HasProjectAlways(projectId) == projectId >= 0
HasProject(projectId) == projectId > 0

\* control.go:190-207  the loop of GeneratePathToProjectIdMap over the listing;
\* unreadable are the directories on which GetProjectId fails.
RECURSIVE ScanFiles(_, _, _, _, _, _)
ScanFiles(root, files, ents, ids, unreadable, mapping) ==
  IF files = <<>> THEN [mapping |-> mapping, err |-> ""]
  ELSE LET file == Head(files)
           absPath == Join(root, file)
       IN IF ~IsDir(ents, file)
            THEN ScanFiles(root, Tail(files), ents, ids, unreadable, mapping)
          ELSE IF file \in unreadable
            THEN [mapping |-> mapping, err |-> "IOError"]
          ELSE LET projectId == GetProjectId(ids, absPath)
               IN ScanFiles(root, Tail(files), ents, ids, unreadable,
                            IF HasProject(projectId)
                              THEN Put(mapping, absPath, projectId)
                              ELSE mapping)

\* control.go:174-210  listOk: whether ioutil.ReadDir succeeds.
GeneratePathToProjectIdMap(root, ents, ids, listOk, unreadable) ==
  IF ~listOk THEN [mapping |-> EmptyMap, err |-> "IOError"]
  ELSE ScanFiles(root, ReadDir(ents), ents, ids, unreadable, EmptyMap)

\* control.go:95-99  raise last to every id of the map, one entry at a time.
RECURSIVE RaiseToCached(_, _, _)
RaiseToCached(mapping, todo, last) ==
  IF todo = {} THEN last
  ELSE LET p == CHOOSE x \in todo : TRUE
           projectId == mapping[p]
       IN RaiseToCached(mapping, todo \ {p},
                        IF projectId > last THEN projectId ELSE last)

\* control.go:73-75
SeedLastProjectId(config) ==
  IF config.StartingProjectId.present THEN config.StartingProjectId.value ELSE 0

\* control.go:67-104  NewControl; mkdevOk: MakeBackingFsDev succeeds.
NewControl ==
  /\ phase = "boot"
  /\ ret = Idle
  /\ \E mkdevOk, listOk \in BOOLEAN, unreadable \in {{}} \cup {{n} : n \in VolNames} :
       IF cfg.BasePath = ""
         THEN /\ phase' = "failed"
              /\ ret' = Ret("NewControl", NoPath, ZeroQuota, "ConfigError", FALSE, 0,
                            ZeroQuota, FALSE, {}, NoCalls)
              /\ UNCHANGED <<fsVars, ctlVars>>
       ELSE IF ~mkdevOk
         THEN /\ phase' = "failed"
              /\ lastProjectId' = SeedLastProjectId(cfg)
              /\ ret' = Ret("NewControl", NoPath, ZeroQuota, "IOError", FALSE, 0,
                            ZeroQuota, FALSE, {}, NoCalls)
              /\ UNCHANGED <<fsVars, backingFsBlockDev, projectIdCache>>
       ELSE LET ents == [entries EXCEPT ![blockDeviceName] = "file"]
                scan == GeneratePathToProjectIdMap(cfg.BasePath, ents, diskId,
                                                   listOk, unreadable)
            IN /\ entries' = ents
               /\ backingFsBlockDev' = Join(cfg.BasePath, blockDeviceName)
               /\ projectIdCache' = scan.mapping
               /\ UNCHANGED <<diskId, devQuota>>
               /\ IF scan.err # ""
                    THEN /\ phase' = "failed"
                         /\ lastProjectId' = SeedLastProjectId(cfg)
                         /\ ret' = Ret("NewControl", NoPath, ZeroQuota, scan.err, FALSE,
                                       0, ZeroQuota, FALSE, {}, NoCalls)
                    ELSE /\ phase' = "live"
                         /\ lastProjectId' = RaiseToCached(scan.mapping,
                                                           DOMAIN scan.mapping,
                                                           SeedLastProjectId(cfg))
                         /\ ret' = Ret("NewControl", NoPath, ZeroQuota, "", FALSE, 0,
                                       ZeroQuota, FALSE, {}, NoCalls)
  /\ UNCHANGED <<cfg, issued, drvVars>>

\* control.go:108-111
GetBackingFsBlockDev ==
  /\ Ready
  /\ ret' = Ret("GetBackingFsBlockDev", backingFsBlockDev, ZeroQuota, "", FALSE, 0,
                ZeroQuota, FALSE, {}, NoCalls)
  /\ UNCHANGED <<fsVars, ctlVars, cfg, phase, issued, drvVars>>

\* control.go:118-135  the value GetQuota returns; getOk: GetProjectQuota succeeds.
GetQuotaResultUnchecked(cache, dev, targetPath, getOk) ==
  LET projectId == IF targetPath \in DOMAIN cache THEN cache[targetPath] ELSE 0
      call == Syscall("GetProjectQuota", backingFsBlockDev, projectId, ZeroQuota, getOk)
  IN IF ~getOk
       THEN [q |-> ZeroQuota, err |-> "QuotaError", id |-> projectId, calls |-> <<call>>]
     ELSE [q |-> dev[projectId], err |-> "", id |-> projectId, calls |-> <<call>>]
GetQuotaResult(cache, dev, targetPath, getOk) ==
  LET ok == targetPath \in DOMAIN cache
  IN IF ~ok
       THEN [q |-> ZeroQuota, err |-> "NotFoundError", id |-> 0, calls |-> NoCalls]
     ELSE LET projectId == cache[targetPath]
              call == Syscall("GetProjectQuota", backingFsBlockDev, projectId,
                              ZeroQuota, getOk)
          IN IF ~getOk
               THEN [q |-> ZeroQuota, err |-> "QuotaError", id |-> projectId,
                     calls |-> <<call>>]
             ELSE [q |-> dev[projectId], err |-> "", id |-> projectId,
                   calls |-> <<call>>]

GetQuotaRecordingMiss(targetPath) ==
  /\ Ready
  /\ \E getOk \in BOOLEAN :
       LET r == GetQuotaResult(projectIdCache, devQuota, targetPath, getOk)
       IN ret' = Ret("GetQuota", targetPath, ZeroQuota, r.err,
                     targetPath \in DOMAIN projectIdCache, r.id, r.q, FALSE, {},
                     r.calls)
  /\ projectIdCache' = IF targetPath \in DOMAIN projectIdCache THEN projectIdCache
                        ELSE Put(projectIdCache, targetPath, 0)
  /\ UNCHANGED <<fsVars, backingFsBlockDev, lastProjectId, cfg, phase, issued, drvVars>>
GetQuota(targetPath) ==
  /\ Ready
  /\ \E getOk \in BOOLEAN :
       LET r == GetQuotaResult(projectIdCache, devQuota, targetPath, getOk)
       IN ret' = Ret("GetQuota", targetPath, ZeroQuota, r.err,
                     targetPath \in DOMAIN projectIdCache, r.id, r.q, FALSE, {},
                     r.calls)
  /\ UNCHANGED <<fsVars, ctlVars, cfg, phase, issued, drvVars>>

\* control.go:142  projectId, ok := c.projectIdCache[targetPath]
CacheHitNever(cache, targetPath) == FALSE
CacheHit(cache, targetPath) == targetPath \in DOMAIN cache

\* control.go:142-144  the id SetQuota works with: the cached one, else a new one.
ProjectIdIgnoringCache(cache, last, targetPath) == NewProjectId(last)
ProjectIdFor(cache, last, targetPath) ==
  IF CacheHit(cache, targetPath) THEN cache[targetPath] ELSE NewProjectId(last)

\* control.go:153
CacheNotRecorded(cache, targetPath, projectId) == cache
CacheAfterBind(cache, targetPath, projectId) == Put(cache, targetPath, projectId)

\* control.go:154
LastAfterBind(last, projectId) == projectId

\* control.go:146-151  SetQuota returns on a failed SetProjectId, before the
\* assignments of :153-154: lastProjectId keeps its value.
LastAdvancedBeforeBind(last, projectId) == projectId
LastAfterFailedBind(last, projectId) == last

\* control.go:160  SetProjectQuota(dev, projectId, &quota) stores the limits.
SetProjectQuota(dev, projectId, quota) == [dev EXCEPT ![projectId] = quota]

\* control.go:139-169  SetQuota on the file system ents/ids/dev; privileged:
\* SetProjectId is permitted; setOk: SetProjectQuota succeeds. A call meets at
\* most one fault: the first failing system call ends it.
SetQuotaResult(ents, ids, dev, targetPath, quota, privileged, setOk) ==
  LET ok == CacheHit(projectIdCache, targetPath)
      projectId == ProjectIdFor(projectIdCache, lastProjectId, targetPath)
      bindOk == SetProjectIdOk(ents, targetPath, privileged)
      bind == Syscall("SetProjectId", targetPath, projectId, ZeroQuota, bindOk)
      set == Syscall("SetProjectQuota", backingFsBlockDev, projectId, quota, setOk)
  IN IF ~ok /\ ~bindOk
       THEN [cache |-> projectIdCache,
             last |-> LastAfterFailedBind(lastProjectId, projectId), ids |-> ids,
             dev |-> dev, err |-> "IOError", hit |-> ok, id |-> projectId,
             bound |-> FALSE, calls |-> <<bind>>]
     ELSE [cache |-> IF ok THEN projectIdCache
                           ELSE CacheAfterBind(projectIdCache, targetPath, projectId),
           last |-> IF ok THEN lastProjectId
                          ELSE LastAfterBind(lastProjectId, projectId),
           ids |-> IF ok THEN ids
                         ELSE [ids EXCEPT ![Base(targetPath)] = projectId],
           dev |-> IF setOk THEN SetProjectQuota(dev, projectId, quota) ELSE dev,
           err |-> IF setOk THEN "" ELSE "QuotaError",
           hit |-> ok, id |-> projectId, bound |-> ~ok,
           calls |-> IF ok THEN <<set>> ELSE <<bind, set>>]

SetQuota(targetPath, quota) ==
  /\ Ready
  /\ \E fault \in {"none", "bind", "set"} :
       LET r == SetQuotaResult(entries, diskId, devQuota, targetPath, quota,
                               fault # "bind", fault # "set")
       IN /\ projectIdCache' = r.cache
          /\ lastProjectId' = r.last
          /\ diskId' = r.ids
          /\ devQuota' = r.dev
          /\ issued' = IF r.bound
                         THEN Append(issued, Issue(targetPath, r.id, lastProjectId))
                         ELSE issued
          /\ ret' = Ret("SetQuota", targetPath, quota, r.err, r.hit, r.id, ZeroQuota,
                        FALSE, {}, r.calls)
  /\ UNCHANGED <<entries, cfg, phase, backingFsBlockDev, drvVars>>

\* ------------------------------------------------------- manager.Manager
\* The manager is the caller of xfs.Control: Create makes the directory and calls
\* SetQuota, List and Get read the directory and call GetQuota, Delete removes the
\* directory tree. Control offers it no call that removes a cache entry.

\* Volume names the manager accepts: non-empty, no separator, no traversal.
IsValidName(name) == name \in VolNames
RequestNames == VolNames \cup {"../a"}

\* Manager.Create up to its call of SetQuota: the name is checked and the
\* directory made (a new inode, with no project id); mkdirOk: it can be made.
MakeVolumeDirReusing(ents, ids, name, mkdirOk) ==
  IF ~IsValidName(name) THEN [ents |-> ents, ids |-> ids, err |-> "ValidationError"]
  ELSE IF ~mkdirOk THEN [ents |-> ents, ids |-> ids, err |-> "IOError"]
  ELSE [ents |-> [ents EXCEPT ![name] = "dir"], ids |-> ids, err |-> ""]
MakeVolumeDir(ents, ids, name, mkdirOk) ==
  IF ~IsValidName(name) THEN [ents |-> ents, ids |-> ids, err |-> "ValidationError"]
  ELSE IF ents[name] # "none" THEN [ents |-> ents, ids |-> ids, err |-> "ConflictError"]
  ELSE IF ~mkdirOk THEN [ents |-> ents, ids |-> ids, err |-> "IOError"]
  ELSE [ents |-> [ents EXCEPT ![name] = "dir"], ids |-> [ids EXCEPT ![name] = 0],
        err |-> ""]

\* Manager.Create(Volume{Name, Size, INode}): the directory, then SetQuota on it;
\* a directory whose SetQuota failed is left in place.
Create(name, quota) ==
  /\ Ready
  /\ \E fault \in {"none", "mkdir", "bind", "set"} :
       LET absPath == Join(cfg.BasePath, name)
           d == MakeVolumeDir(entries, diskId, name, fault # "mkdir")
       IN IF d.err # ""
            THEN /\ ret' = Ret("Create", absPath, quota, d.err, FALSE, 0, ZeroQuota,
                               FALSE, {}, NoCalls)
                 /\ UNCHANGED <<fsVars, ctlVars, issued>>
          ELSE LET r == SetQuotaResult(d.ents, d.ids, devQuota, absPath, quota,
                                       fault # "bind", fault # "set")
               IN /\ entries' = d.ents
                  /\ diskId' = r.ids
                  /\ devQuota' = r.dev
                  /\ projectIdCache' = r.cache
                  /\ lastProjectId' = r.last
                  /\ issued' = IF r.bound
                                 THEN Append(issued, Issue(absPath, r.id, lastProjectId))
                                 ELSE issued
                  /\ ret' = Ret("Create", absPath, quota, r.err, r.hit, r.id,
                                ZeroQuota, FALSE, {}, r.calls)
                  /\ UNCHANGED backingFsBlockDev
  /\ UNCHANGED <<cfg, phase, drvVars>>

\* Manager.List: GetQuota for every child directory, in listing order; the first
\* failure ends the listing.
RECURSIVE ListFiles(_, _, _, _, _)
ListFiles(files, ents, getOk, vols, calls) ==
  IF files = <<>> THEN [vols |-> vols, err |-> "", calls |-> calls]
  ELSE LET file == Head(files)
       IN IF ~IsDir(ents, file)
            THEN ListFiles(Tail(files), ents, getOk, vols, calls)
          ELSE LET r == GetQuotaResult(projectIdCache, devQuota,
                                       Join(cfg.BasePath, file), getOk)
               IN IF r.err # ""
                    THEN [vols |-> vols, err |-> r.err, calls |-> calls \o r.calls]
                  ELSE ListFiles(Tail(files), ents, getOk,
                                 vols \cup {[Name |-> file, Size |-> r.q.Size,
                                             INode |-> r.q.INode]},
                                 calls \o r.calls)

ListResult(listOk, getOk) ==
  IF ~listOk THEN [vols |-> {}, err |-> "IOError", calls |-> NoCalls]
  ELSE ListFiles(ReadDir(entries), entries, getOk, {}, NoCalls)

List ==
  /\ Ready
  /\ \E listOk, getOk \in BOOLEAN :
       LET r == ListResult(listOk, getOk)
       IN ret' = Ret("List", NoPath, ZeroQuota, r.err, FALSE, 0, ZeroQuota, FALSE,
                     r.vols, r.calls)
  /\ UNCHANGED <<fsVars, ctlVars, cfg, phase, issued, drvVars>>

\* Manager.Get(name): found only for an existing directory that has a quota mapping.
GetResult(name, getOk) ==
  LET absPath == Join(cfg.BasePath, name)
  IN IF ~IsDir(entries, name) \/ absPath \notin DOMAIN projectIdCache
       THEN [found |-> FALSE, q |-> ZeroQuota, err |-> "", id |-> 0, calls |-> NoCalls]
     ELSE LET r == GetQuotaResult(projectIdCache, devQuota, absPath, getOk)
          IN [found |-> r.err = "", q |-> r.q, err |-> r.err, id |-> r.id,
              calls |-> r.calls]

Get(name) ==
  /\ Ready
  /\ \E getOk \in BOOLEAN :
       LET r == GetResult(name, getOk)
       IN ret' = Ret("Get", Join(cfg.BasePath, name), ZeroQuota, r.err,
                     r.calls # NoCalls, r.id, r.q, r.found, {}, r.calls)
  /\ UNCHANGED <<fsVars, ctlVars, cfg, phase, issued, drvVars>>

\* Manager.Delete(name): removes the directory tree root/name; rmOk: it can be
\* removed.
DeleteResult(ents, ids, name, rmOk) ==
  IF ~IsDir(ents, name) THEN [ents |-> ents, ids |-> ids, err |-> "NotFoundError"]
  ELSE IF ~rmOk THEN [ents |-> ents, ids |-> ids, err |-> "IOError"]
  ELSE [ents |-> [ents EXCEPT ![name] = "none"], ids |-> [ids EXCEPT ![name] = 0],
        err |-> ""]

Delete(name) ==
  /\ Ready
  /\ \E rmOk \in BOOLEAN :
       LET r == DeleteResult(entries, diskId, name, rmOk)
       IN /\ entries' = r.ents
          /\ diskId' = r.ids
          /\ ret' = Ret("Delete", Join(cfg.BasePath, name), ZeroQuota, r.err, FALSE, 0,
                        ZeroQuota, FALSE, {}, NoCalls)
  /\ UNCHANGED <<devQuota, ctlVars, cfg, phase, issued, drvVars>>

\* The caller takes what the call returned; it can then make its next call.
Return ==
  /\ ret # Idle
  /\ ret' = Idle
  /\ UNCHANGED <<fsVars, ctlVars, cfg, phase, issued, drvVars>>

\* ------------------------------------------- main.Driver (unnamed/part_001)
\* Every method of Driver has a value receiver (func (d Driver) ...): the call
\* works on a copy of the Driver value the handler holds, the embedded sync.Mutex
\* included. d.Lock() and d.Unlock() act on the copy's mutex; d.manager is a
\* pointer, so all copies share the Manager and its Control.

\* part_000: args.DefaultSize
DefaultSize == "512M"
NoSize == ""
SizeOptions == {NoSize, "1K", "junk"}

\* manager.FromHumanSize on the sizes used here: a number and a unit of 1024^k.
FromHumanSize(size) ==
  CASE size = "1K" -> [bytes |-> 1024, err |-> ""]
    [] size = "512M" -> [bytes |-> 512 * 1024 * 1024, err |-> ""]
    [] OTHER -> [bytes |-> 0, err |-> "ParseError"]

DriverOps == {"Create", "List", "Get", "Remove", "Path", "Mount", "Unmount"}
DriverNames == VolNames \cup {"../a"}

\* The statements of a call that run between d.Lock() and the deferred d.Unlock()
\* inside a call of the manager.
ManagerPcs ==
  {"manager", "lookup", "alloc", "bind", "store", "stored", "last", "set"}
InManager(r) == reqs[r].pc \in ManagerPcs

Step(r, pc) == [reqs EXCEPT ![r].pc = pc]
Fail(r, err) == [reqs EXCEPT ![r].pc = "unlock", ![r].err = err]

\* The Go runtime ends the process when it finds a map being read or written
\* while another goroutine is inside a write of it.
Crash ==
  /\ phase' = "crashed"
  /\ UNCHANGED <<fsVars, ctlVars, cfg, issued, ret, mutex, reqs, mapWriter>>

\* part_001:52-66 and the entry of every other method: the receiver d is copied
\* from the handler's Driver; Create parses its size option before it locks.
Arrive(r) ==
  /\ Ready
  /\ reqs[r].pc = "idle"
  /\ \E op \in DriverOps, name \in DriverNames, opt \in SizeOptions :
       LET size == IF opt = NoSize THEN DefaultSize ELSE opt
           parsed == FromHumanSize(size)
           call == [pc |-> "lock", op |-> op, name |-> name, quota |-> ZeroQuota,
                    lock |-> mutex, projectId |-> 0, err |-> "", acquired |-> 0,
                    released |-> 0]
       IN /\ op # "Create" => opt = NoSize
          /\ op \in {"List", "Unmount"} => name = VolNameSeq[1]
          /\ reqs' = [reqs EXCEPT ![r] =
               IF op # "Create" THEN call
               ELSE IF parsed.err # ""
                 THEN [call EXCEPT !.pc = "done", !.err = parsed.err]
               ELSE [call EXCEPT !.quota = [Size |-> parsed.bytes, INode |-> 0]]]
  /\ UNCHANGED <<fsVars, ctlVars, cfg, phase, issued, ret, mutex, mapWriter>>

\* part_001:68, 90, 116, 144, 160, 184, 209  d.Lock(): waits until the mutex of
\* the receiver is free, then holds it.
Lock(r) ==
  /\ phase = "live"
  /\ reqs[r].pc = "lock"
  /\ reqs[r].lock = "unlocked"
  /\ reqs' = [reqs EXCEPT ![r].lock = "locked",
                          ![r].acquired = @ + 1,
                          ![r].pc = IF reqs[r].op = "Unmount" THEN "body" ELSE "manager"]
  /\ UNCHANGED <<fsVars, ctlVars, cfg, phase, issued, ret, mutex, mapWriter>>

\* part_001:73  d.manager.Create, up to its call of SetQuota.
ManagerCreate(r) ==
  /\ phase = "live"
  /\ reqs[r].pc = "manager"
  /\ reqs[r].op = "Create"
  /\ \E mkdirOk \in BOOLEAN :
       LET d == MakeVolumeDir(entries, diskId, reqs[r].name, mkdirOk)
       IN /\ entries' = d.ents
          /\ diskId' = d.ids
          /\ reqs' = IF d.err # "" THEN Fail(r, d.err) ELSE Step(r, "lookup")
  /\ UNCHANGED <<devQuota, ctlVars, cfg, phase, issued, ret, mutex, mapWriter>>

\* control.go:142  projectId, ok := c.projectIdCache[targetPath]
SetQuotaLookup(r) ==
  /\ phase = "live"
  /\ reqs[r].pc = "lookup"
  /\ LET targetPath == Join(cfg.BasePath, reqs[r].name)
     IN \/ /\ mapWriter # 0
           /\ Crash
        \/ /\ mapWriter = 0
           /\ reqs' = IF CacheHit(projectIdCache, targetPath)
                        THEN [reqs EXCEPT ![r].pc = "set",
                                          ![r].projectId = projectIdCache[targetPath]]
                        ELSE Step(r, "alloc")
           /\ UNCHANGED <<fsVars, ctlVars, cfg, phase, issued, ret, mutex, mapWriter>>

\* control.go:144  projectId = c.lastProjectId + 1
SetQuotaAlloc(r) ==
  /\ phase = "live"
  /\ reqs[r].pc = "alloc"
  /\ reqs' = [reqs EXCEPT ![r].pc = "bind",
                          ![r].projectId = NewProjectId(lastProjectId)]
  /\ UNCHANGED <<fsVars, ctlVars, cfg, phase, issued, ret, mutex, mapWriter>>

\* control.go:145-151  SetProjectId(targetPath, projectId)
SetQuotaBind(r) ==
  /\ phase = "live"
  /\ reqs[r].pc = "bind"
  /\ \E privileged \in BOOLEAN :
       LET targetPath == Join(cfg.BasePath, reqs[r].name)
       IN IF SetProjectIdOk(entries, targetPath, privileged)
            THEN /\ diskId' = [diskId EXCEPT ![reqs[r].name] = reqs[r].projectId]
                 /\ issued' = Append(issued, Issue(targetPath, reqs[r].projectId,
                                                   lastProjectId))
                 /\ reqs' = Step(r, "store")
            ELSE /\ reqs' = Fail(r, "IOError")
                 /\ UNCHANGED <<diskId, issued>>
  /\ UNCHANGED <<entries, devQuota, ctlVars, cfg, phase, ret, mutex, mapWriter>>

\* control.go:153  c.projectIdCache[targetPath] = projectId: the write begins
SetQuotaStore(r) ==
  /\ phase = "live"
  /\ reqs[r].pc = "store"
  /\ \/ /\ mapWriter # 0
        /\ Crash
     \/ /\ mapWriter = 0
        /\ mapWriter' = r
        /\ reqs' = Step(r, "stored")
        /\ UNCHANGED <<fsVars, ctlVars, cfg, phase, issued, ret, mutex>>

\* control.go:153  the write ends
SetQuotaStored(r) ==
  /\ phase = "live"
  /\ reqs[r].pc = "stored"
  /\ projectIdCache' = CacheAfterBind(projectIdCache,
                                      Join(cfg.BasePath, reqs[r].name),
                                      reqs[r].projectId)
  /\ mapWriter' = 0
  /\ reqs' = Step(r, "last")
  /\ UNCHANGED <<fsVars, backingFsBlockDev, lastProjectId, cfg, phase, issued, ret,
                 mutex>>

\* control.go:154  c.lastProjectId = projectId
SetQuotaLast(r) ==
  /\ phase = "live"
  /\ reqs[r].pc = "last"
  /\ lastProjectId' = LastAfterBind(lastProjectId, reqs[r].projectId)
  /\ reqs' = Step(r, "set")
  /\ UNCHANGED <<fsVars, backingFsBlockDev, projectIdCache, cfg, phase, issued, ret,
                 mutex, mapWriter>>

\* control.go:160-168  SetProjectQuota(c.backingFsBlockDev, projectId, &quota)
SetQuotaSet(r) ==
  /\ phase = "live"
  /\ reqs[r].pc = "set"
  /\ \E setOk \in BOOLEAN :
       /\ devQuota' = IF setOk
                        THEN SetProjectQuota(devQuota, reqs[r].projectId, reqs[r].quota)
                        ELSE devQuota
       /\ reqs' = [reqs EXCEPT ![r].pc = "unlock",
                               ![r].err = IF setOk THEN "" ELSE "QuotaError"]
  /\ UNCHANGED <<entries, diskId, ctlVars, cfg, phase, issued, ret, mutex, mapWriter>>

\* part_001:95, 119, 163, 187  d.manager.List and d.manager.Get: they read the
\* directory and, through GetQuota, the cache.
ManagerRead(r) ==
  /\ phase = "live"
  /\ reqs[r].pc = "manager"
  /\ reqs[r].op \in {"List", "Get", "Path", "Mount"}
  /\ \/ /\ mapWriter # 0
        /\ Crash
     \/ /\ \E listOk, getOk \in BOOLEAN :
             LET err == IF reqs[r].op = "List"
                          THEN ListResult(listOk, getOk).err
                          ELSE LET g == GetResult(reqs[r].name, getOk)
                               IN IF g.err # "" THEN g.err
                                  ELSE IF ~g.found THEN "NotFoundError" ELSE ""
             IN reqs' = Fail(r, err)
        /\ UNCHANGED <<fsVars, ctlVars, cfg, phase, issued, ret, mutex, mapWriter>>

\* part_001:147  d.manager.Delete(req.Name)
ManagerDelete(r) ==
  /\ phase = "live"
  /\ reqs[r].pc = "manager"
  /\ reqs[r].op = "Remove"
  /\ \E rmOk \in BOOLEAN :
       LET d == DeleteResult(entries, diskId, reqs[r].name, rmOk)
       IN /\ entries' = d.ents
          /\ diskId' = d.ids
          /\ reqs' = Fail(r, d.err)
  /\ UNCHANGED <<devQuota, ctlVars, cfg, phase, issued, ret, mutex, mapWriter>>

\* part_001:212  Unmount calls nothing between Lock and Unlock.
UnmountBody(r) ==
  /\ phase = "live"
  /\ reqs[r].pc = "body"
  /\ reqs' = Step(r, "unlock")
  /\ UNCHANGED <<fsVars, ctlVars, cfg, phase, issued, ret, mutex, mapWriter>>

\* part_001:69, 91, 117, 145, 161, 185, 210  defer d.Unlock()
UnlockOnSuccessOnly(r) ==
  /\ phase = "live"
  /\ reqs[r].pc = "unlock"
  /\ reqs' = IF reqs[r].err = ""
               THEN [reqs EXCEPT ![r].lock = "unlocked", ![r].released = @ + 1,
                                 ![r].pc = "done"]
               ELSE Step(r, "done")
  /\ UNCHANGED <<fsVars, ctlVars, cfg, phase, issued, ret, mutex, mapWriter>>
Unlock(r) ==
  /\ phase = "live"
  /\ reqs[r].pc = "unlock"
  /\ reqs' = [reqs EXCEPT ![r].lock = "unlocked", ![r].released = @ + 1,
                          ![r].pc = "done"]
  /\ UNCHANGED <<fsVars, ctlVars, cfg, phase, issued, ret, mutex, mapWriter>>


\* ------------------------------------------------------------------ Spec
NoStart == [present |-> FALSE, value |-> 0]
Start(v) == [present |-> TRUE, value |-> v]
Config(basePath, start) == [BasePath |-> basePath, StartingProjectId |-> start]

InitControl ==
  /\ phase = "boot"
  /\ backingFsBlockDev = NoPath
  /\ projectIdCache = EmptyMap
  /\ lastProjectId = 0
  /\ issued = <<>>
  /\ ret = Idle
  /\ mutex = "unlocked"
  /\ reqs = [r \in Reqs |-> NoRequest]
  /\ mapWriter = 0

\* Before NewControl: the root is empty or holds one directory left by an earlier
\* run, with no project id or with project id 1; no quota limits are set yet. The
\* controller starts without a floor or with the largest id as its floor.
Init ==
  /\ entries \in [AllNames -> {"none", "dir"}]
  /\ \A n \in AllNames : entries[n] = "dir" => n = VolNameSeq[1]
  /\ diskId \in [VolNames -> {0, 1}]
  /\ \A n \in VolNames : entries[n] # "dir" => diskId[n] = 0
  /\ devQuota = [i \in Uint32 |-> ZeroQuota]
  /\ cfg \in {Config(HostMountpoint, NoStart), Config(HostMountpoint, Start(MaxProjectId)),
              Config("", NoStart)}
  /\ cfg.BasePath = "" => Dirs = {}
  /\ InitControl

Next ==
  \/ NewControl
  \/ GetBackingFsBlockDev
  \/ \E p \in Paths : GetQuota(p)
  \/ \E p \in Paths, q \in Quotas : SetQuota(p, q)
  \/ \E n \in RequestNames, q \in Quotas : Create(n, q)
  \/ List
  \/ \E n \in RequestNames : Get(n)
  \/ \E n \in RequestNames : Delete(n)
  \/ Return

Spec == Init /\ [][Next]_vars

\* ---------------------------------------------------------------- SpecInit
\* NewControl over every root: any mix of directories (each with the project id an
\* earlier run or the administrator left on it, 0 for none) and plain files, with
\* or without the control file, under every configured floor.
InitScan ==
  /\ entries \in [AllNames -> {"none", "dir", "file"}]
  /\ entries[blockDeviceName] # "dir"
  /\ diskId \in [VolNames -> EdgeIds]
  /\ \A n \in VolNames : entries[n] # "dir" => diskId[n] = 0
  /\ devQuota = [i \in Uint32 |-> ZeroQuota]
  /\ cfg \in {Config(HostMountpoint, s) : s \in {NoStart} \cup {Start(v) : v \in EdgeIds}}
             \cup {Config("", NoStart)}
  /\ InitControl

NextInit ==
  \/ NewControl
  \/ Return

SpecInit == InitScan /\ [][NextInit]_vars

\* -------------------------------------------------------------- SpecDriver
\* The plugin: NewDriver builds the manager over the host mount point, without a
\* configured floor, and the handler then serves concurrent requests.
InitDriver ==
  /\ entries \in [AllNames -> {"none", "dir"}]
  /\ \A n \in AllNames : entries[n] = "dir" => n = VolNameSeq[1]
  /\ diskId \in [VolNames -> {0, 1}]
  /\ \A n \in VolNames : entries[n] # "dir" => diskId[n] = 0
  /\ devQuota = [i \in Uint32 |-> ZeroQuota]
  /\ cfg = Config(HostMountpoint, NoStart)
  /\ InitControl

NextDriver ==
  \/ NewControl
  \/ Return
  \/ \E r \in Reqs :
       \/ Arrive(r)
       \/ Lock(r)
       \/ ManagerCreate(r)
       \/ SetQuotaLookup(r)
       \/ SetQuotaAlloc(r)
       \/ SetQuotaBind(r)
       \/ SetQuotaStore(r)
       \/ SetQuotaStored(r)
       \/ SetQuotaLast(r)
       \/ SetQuotaSet(r)
       \/ ManagerRead(r)
       \/ ManagerDelete(r)
       \/ UnmountBody(r)
       \/ Unlock(r)

SpecDriver == InitDriver /\ [][NextDriver]_vars

\* The Go scheduler runs every goroutine that can run: a request that can take a
\* step eventually takes one.
RequestStep(r) ==
  \/ Lock(r)
  \/ ManagerCreate(r)
  \/ SetQuotaLookup(r)
  \/ SetQuotaAlloc(r)
  \/ SetQuotaBind(r)
  \/ SetQuotaStore(r)
  \/ SetQuotaStored(r)
  \/ SetQuotaLast(r)
  \/ SetQuotaSet(r)
  \/ ManagerRead(r)
  \/ ManagerDelete(r)
  \/ UnmountBody(r)
  \/ Unlock(r)

SpecDriverFair == SpecDriver /\ \A r \in Reqs : WF_vars(RequestStep(r))

\* ------------------------------------------------------------ properties
Max2(a, b) == IF a > b THEN a ELSE b
SetMax(S) == IF S = {} THEN 0 ELSE CHOOSE x \in S : \A y \in S : y <= x
Called(op) == ret.op = op /\ ret.err = ""
Binds(calls) == {i \in 1 .. Len(calls) : calls[i].fn = "SetProjectId"}

\* C1: the ids bound by SetQuota to new paths are L+1, L+2, ..., L+N in call order
\* (L: lastProjectId before the first of them), and no id is bound twice.
C1_IdsStrictlyIncreasing ==
  /\ \A i \in 1 .. Len(issued) : issued[i].id = issued[1].last + i
  /\ \A i, j \in 1 .. Len(issued) : i # j => issued[i].id # issued[j].id

\* C2: at most one request at a time is inside a call of the manager, because
\* every request takes the same lock around it.
C2_OneRequestInManager ==
  Cardinality({r \in Reqs : InManager(r)}) <= 1

\* C3: concurrent Create requests never bind one ProjectID to two different
\* paths, and no update of the cache or of lastProjectId is lost.
C3_AllocationIsRaceFree ==
  /\ \A i, j \in 1 .. Len(issued) :
       issued[i].path # issued[j].path => issued[i].id # issued[j].id
  /\ (\A r \in Reqs : reqs[r].pc \in {"idle", "done"}) =>
       \A i \in 1 .. Len(issued) :
         /\ issued[i].path \in DOMAIN projectIdCache
         /\ projectIdCache[issued[i].path] = issued[i].id
         /\ lastProjectId >= issued[i].id

\* C4: after a successful SetQuota(path, q), GetQuota(path) returns q, whether the
\* path was newly bound or already cached and whatever the other paths' quotas.
C4_SetThenGetReturnsQuota ==
  (Called("SetQuota") \/ Called("Create")) =>
    LET r == GetQuotaResult(projectIdCache, devQuota, ret.arg, TRUE)
    IN r.err = "" /\ r.q = ret.quota

C4_Witness ==
  /\ Called("SetQuota")
  /\ ret.hit
  /\ \E p \in DOMAIN projectIdCache :
       /\ p # ret.arg
       /\ devQuota[projectIdCache[p]] \notin {ret.quota, ZeroQuota}

\* C5: SetQuota on a path already in the cache issues no bind, leaves the cache,
\* lastProjectId and the directory's on-disk id unchanged, and only replaces the
\* limits stored for the path's ProjectID by the requested ones.
C5_SecondSetQuotaKeepsId ==
  [][(ret'.op = "SetQuota" /\ ret = Idle /\ ret'.arg \in DOMAIN projectIdCache) =>
       /\ projectIdCache' = projectIdCache
       /\ lastProjectId' = lastProjectId
       /\ diskId' = diskId
       /\ issued' = issued
       /\ Binds(ret'.calls) = {}
       /\ devQuota' = IF ret'.err = ""
                        THEN [devQuota EXCEPT ![projectIdCache[ret'.arg]] = ret'.quota]
                        ELSE devQuota]_vars

C5_Witness ==
  /\ Called("SetQuota")
  /\ ret.hit
  /\ Len(issued) = MaxVols
  /\ devQuota[projectIdCache[ret.arg]] = ret.quota
  /\ \E i \in Uint32 : devQuota[i] \notin {ret.quota, ZeroQuota}

\* C6: after a successful NewControl the cache holds exactly basePath/child -> id
\* for the child directories whose on-disk id is not 0: no directory with id 0, no
\* plain file and not the control file.
C6_CacheIsScanOfRoot ==
  Called("NewControl") =>
    /\ DOMAIN projectIdCache =
         {Join(cfg.BasePath, n) : n \in {m \in Dirs : diskId[m] # 0}}
    /\ \A n \in Dirs : diskId[n] # 0 => projectIdCache[Join(cfg.BasePath, n)] = diskId[n]
    /\ Join(cfg.BasePath, blockDeviceName) \notin DOMAIN projectIdCache

C6_Witness ==
  /\ Called("NewControl")
  /\ entries[blockDeviceName] = "file"
  /\ \E n, m \in Dirs : diskId[n] = 0 /\ diskId[m] = MaxProjectId
  /\ projectIdCache # EmptyMap

\* C7: after a successful NewControl lastProjectId is the larger of the configured
\* floor (0 without one) and the largest id the scan found, so the first id
\* allocated afterwards is greater than the floor and than every directory's id.
C7_LastIsMaxAndNextIsAbove ==
  Called("NewControl") =>
    /\ lastProjectId = Max2(SeedLastProjectId(cfg), SetMax({diskId[n] : n \in Dirs}))
    /\ NewProjectId(lastProjectId) > SeedLastProjectId(cfg)
    /\ \A n \in Dirs : NewProjectId(lastProjectId) > diskId[n]

\* C8: a successful Create of a name that was bound to ProjectID k and then deleted
\* binds an id greater than k to the new directory.
C8_RecreatedVolumeGetsFreshId ==
  \A i \in 1 .. Len(issued) :
    (Called("Create") /\ ret.hit /\ issued[i].path = ret.arg) =>
      /\ ret.id > issued[i].id
      /\ diskId[Base(ret.arg)] = ret.id

\* C9: after a successful Delete(name), Get(name) reports not found, List does
\* not hold name and no path -> id entry for root/name is left for a quota lookup.
C9_DeletedVolumeIsForgotten ==
  Called("Delete") =>
    /\ \A getOk \in BOOLEAN : ~GetResult(Base(ret.arg), getOk).found
    /\ \A listOk, getOk \in BOOLEAN :
         \A v \in ListResult(listOk, getOk).vols : v.Name # Base(ret.arg)
    /\ \A getOk \in BOOLEAN :
         GetQuotaResult(projectIdCache, devQuota, ret.arg, getOk).err = "NotFoundError"

\* C10: every child directory of root has an entry in the cache, so List never
\* fails for want of a project id.
C10_EveryDirectoryIsCached ==
  phase = "live" =>
    /\ \A n \in Dirs : Join(cfg.BasePath, n) \in DOMAIN projectIdCache
    /\ \A getOk \in BOOLEAN : ListResult(TRUE, getOk).err # "NotFoundError"

\* C11: Create with a name that exists as a directory under root fails with the
\* conflict error, makes no system call and leaves the directory, its on-disk id,
\* the quota limits, the cache and lastProjectId as they were.
C11_CreateOverExistingChangesNothing ==
  [][(ret = Idle /\ ret'.op = "Create" /\ IsDir(entries, Base(ret'.arg))) =>
       /\ ret'.err = "ConflictError"
       /\ ret'.calls = NoCalls
       /\ UNCHANGED <<entries, diskId, devQuota, projectIdCache, lastProjectId,
                      issued>>]_vars

C11_Witness ==
  /\ ret.op = "Create"
  /\ ret.err = "ConflictError"
  /\ ret.arg \in DOMAIN projectIdCache
  /\ diskId[Base(ret.arg)] = projectIdCache[ret.arg]
  /\ devQuota[projectIdCache[ret.arg]] \notin {ZeroQuota, ret.quota}

\* C12: GetQuota on a path with no cache entry fails with the not-found error
\* without a quota-get call; GetQuota on a cached path makes one quota-get call,
\* on the backing device, with the cached ProjectID of that path. Either way the
\* cache and lastProjectId are unchanged.
C12_GetQuotaAsksForCachedId ==
  [][(ret = Idle /\ ret'.op = "GetQuota") =>
       /\ UNCHANGED <<projectIdCache, lastProjectId>>
       /\ IF ret'.arg \notin DOMAIN projectIdCache
            THEN ret'.err = "NotFoundError" /\ ret'.calls = NoCalls
            ELSE /\ Len(ret'.calls) = 1
                 /\ ret'.calls[1].fn = "GetProjectQuota"
                 /\ ret'.calls[1].path = backingFsBlockDev
                 /\ ret'.calls[1].id = projectIdCache[ret'.arg]]_vars

C12_Witness ==
  /\ Called("GetQuota")
  /\ ret.calls # NoCalls
  /\ ret.out # ZeroQuota
  /\ \E p \in DOMAIN projectIdCache :
       /\ projectIdCache[p] # projectIdCache[ret.arg]
       /\ devQuota[projectIdCache[p]] \notin {ZeroQuota, ret.out}

FailedBinds(calls) == {i \in Binds(calls) : ~calls[i].ok}
QuotaSets(calls) == {i \in 1 .. Len(calls) : calls[i].fn = "SetProjectQuota"}

\* C13: when the bind of a new id fails, SetQuota returns the error without a
\* quota-set call and leaves the cache, lastProjectId, the on-disk ids and the
\* limits as they were, so a SetQuota on any uncached path works with the same id
\* again.
C13_FailedBindRecordsNothing ==
  [][(ret = Idle /\ ret'.op \in {"SetQuota", "Create"}
        /\ FailedBinds(ret'.calls) # {}) =>
       /\ ret'.err = "IOError"
       /\ QuotaSets(ret'.calls) = {}
       /\ UNCHANGED <<projectIdCache, lastProjectId, diskId, devQuota, issued>>
       /\ ret'.id = NewProjectId(lastProjectId)
       /\ \A p \in Paths \ DOMAIN projectIdCache' :
            ProjectIdFor(projectIdCache', lastProjectId', p) = ret'.id]_vars

C13_Witness ==
  /\ ret.op = "SetQuota"
  /\ ret.err = "IOError"
  /\ FailedBinds(ret.calls) # {}
  /\ IsDir(entries, Base(ret.arg))
  /\ Len(issued) >= 1
  /\ lastProjectId = issued[Len(issued)].id
  /\ ret.id = NewProjectId(lastProjectId)

\* C14: when the bind of a new id succeeds and the quota-set call after it fails,
\* SetQuota returns the error with the path cached under the new id and
\* lastProjectId advanced to it; a retried SetQuota on the path works with that
\* id, binds nothing and leaves the cache and lastProjectId as they are.
C14_FailedQuotaSetKeepsBinding ==
  (ret.op \in {"SetQuota", "Create"} /\ Binds(ret.calls) # {}
     /\ FailedBinds(ret.calls) = {} /\ ret.err # "") =>
    /\ ret.err = "QuotaError"
    /\ ret.arg \in DOMAIN projectIdCache
    /\ projectIdCache[ret.arg] = ret.id
    /\ lastProjectId = ret.id
    /\ diskId[Base(ret.arg)] = ret.id
    /\ \A q \in Quotas, privileged, setOk \in BOOLEAN :
         LET retry == SetQuotaResult(entries, diskId, devQuota, ret.arg, q,
                                     privileged, setOk)
         IN /\ retry.hit
            /\ retry.id = ret.id
            /\ Binds(retry.calls) = {}
            /\ retry.cache = projectIdCache
            /\ retry.last = lastProjectId

C14_Witness ==
  /\ ret.op = "SetQuota"
  /\ ret.err = "QuotaError"
  /\ Binds(ret.calls) # {}
  /\ Len(issued) = MaxVols
  /\ devQuota[ret.id] = ZeroQuota

\* C15: in every state after initialization, every cached path that exists as a
\* directory carries the cached ProjectID as its on-disk project id.
C15_CacheAgreesWithDisk ==
  phase = "live" =>
    \A p \in DOMAIN projectIdCache :
      IsDir(entries, Base(p)) => diskId[Base(p)] = projectIdCache[p]

\* C16: in every state after initialization lastProjectId is at least every cached
\* ProjectID, so the id a new path would get differs from every cached id.
C16_LastBoundsCachedIds ==
  phase = "live" =>
    \A p \in DOMAIN projectIdCache :
      /\ lastProjectId >= projectIdCache[p]
      /\ NewProjectId(lastProjectId) # projectIdCache[p]

\* C17: every driver operation that takes the lock takes it once and releases it
\* once before it returns, on the error returns too (Create's size-parse error
\* returns before the lock is taken), so no lock is held by an operation that has
\* ended; and a request that has reached d.Lock() gets through the operation to
\* its end while the process lives.
LockedPcs == ManagerPcs \cup {"body", "unlock"}

C17_LockTakenAndReleasedOnce ==
  /\ [](/\ mutex = "unlocked"
        /\ \A r \in Reqs :
             /\ reqs[r].pc \in LockedPcs =>
                  /\ reqs[r].lock = "locked"
                  /\ reqs[r].acquired = 1
                  /\ reqs[r].released = 0
             /\ reqs[r].pc = "done" =>
                  /\ reqs[r].lock = "unlocked"
                  /\ reqs[r].acquired = reqs[r].released
                  /\ reqs[r].acquired <= 1
                  /\ reqs[r].acquired = 0 =>
                       reqs[r].op = "Create" /\ reqs[r].err = "ParseError")
  /\ \A r \in Reqs :
       (reqs[r].pc = "lock") ~> (reqs[r].pc = "done" \/ phase = "crashed")

C17_Witness ==
  \E r, s \in Reqs :
    /\ r # s
    /\ reqs[r].pc = "done"
    /\ reqs[r].err \notin {"", "ParseError"}
    /\ reqs[r].acquired = 1
    /\ reqs[r].released = 1
    /\ reqs[s].pc = "done"
    /\ reqs[s].op = "Create"
    /\ reqs[s].err = ""
    /\ reqs[s].released = 1

\* C18: after initialization only SetQuota (called directly or by Create) changes
\* the cache, lastProjectId or the backing-device path; GetQuota and
\* GetBackingFsBlockDev change none of them, whether they succeed or fail; and the
\* backing-device path is basePath/__control-device in every state after a
\* successful NewControl, which is what GetBackingFsBlockDev returns.
C18_OnlySetQuotaMutatesControl ==
  /\ [][/\ (ret = Idle /\ ret'.op \in {"GetQuota", "GetBackingFsBlockDev"}) =>
             UNCHANGED <<projectIdCache, lastProjectId, backingFsBlockDev>>
        /\ (phase = "live"
              /\ <<projectIdCache, lastProjectId, backingFsBlockDev>>' #
                   <<projectIdCache, lastProjectId, backingFsBlockDev>>) =>
             ret'.op \in {"SetQuota", "Create"}]_vars
  /\ [](phase = "live" =>
          /\ backingFsBlockDev = Join(cfg.BasePath, blockDeviceName)
          /\ ret.op = "GetBackingFsBlockDev" => ret.arg = backingFsBlockDev)

C18_Witness ==
  /\ ret.op = "GetQuota"
  /\ ret.err = "NotFoundError"
  /\ projectIdCache # EmptyMap
  /\ Len(issued) >= 1
  /\ lastProjectId > 0
  /\ backingFsBlockDev = Join(HostMountpoint, blockDeviceName)

\* C19: SetQuota never binds ProjectID 0 to a path and never lowers lastProjectId:
\* every id it binds is not 0 and is greater than the lastProjectId it was
\* computed from, whatever that value is.
C19_IncrementDoesNotWrap ==
  \A i \in 1 .. Len(issued) :
    /\ issued[i].id # 0
    /\ issued[i].id > issued[i].last

====
